---- MODULE Spec2Model ----
(***************************************************************************)
(* Model of eval/scripts/gencode_json.py: the Gencode step orchestrator    *)
(* (its step cache previous_llm_code, prompt assembly, response and prompt *)
(* artifacts on disk) and the outer driver main().                         *)
(*                                                                         *)
(* Text is a sequence of tokens, so that joins, prefixes and extractions   *)
(* are computed rather than assumed.  An optional value (Python None, an   *)
(* absent file) is the record None; Some(t) wraps a text t.                *)
(***************************************************************************)
EXTENDS Integers, Sequences, FiniteSets, TLC

VARIABLES
    data,               \* the problem list read by main (problem ids, in order)
    fixture_files,      \* the set of <<problem_id, step>> fixture files eval/data/<id>.<step>.txt present
    response_files,     \* <output_dir>/<model>/<id>.<step>.py : None or Some(text)
    prompt_files,       \* <prompt_dir>/<model>/<id>.<step>.txt : None or Some(text)
    previous_llm_code,  \* Gencode.previous_llm_code: a sequence of None / Some(text)
    stored_in,          \* history: for each cache slot, the position in data of the problem
                        \* during whose processing it was stored (0: not stored)
    pc,                 \* main: "loop", "done", "error"; "api" under ApiSpec
    prob_idx,           \* main: position in data of the current problem
    step_i,             \* main: the loop variable i (0-based)
    run,                \* which execution of main this is (1 or 2)
    invocations,        \* history: model invocations made in the current run
    ncalls,             \* history: calls of generate_response_with_steps made so far
    snapshot,           \* history: the files as they were when the first run completed
    last                \* history: what the latest call of generate_response_with_steps did

vars == <<data, fixture_files, response_files, prompt_files, previous_llm_code,
          stored_in, pc, prob_idx, step_i, run, invocations, ncalls, snapshot, last>>

---------------------------------------------------------------------------
(* Bounds *)

MaxProblems == 2

MaxTotalSteps == 7

MaxCalls == 2

---------------------------------------------------------------------------
(* Text *)

Tok(kind, p, k, v) == [kind |-> kind, p |-> p, k |-> k, v |-> v]

NL == Tok("nl", "", 0, "")

Txt(s) == Tok("txt", "", 0, s)

Def(p, k, v) == Tok("def", p, k, v)

Helper(p, k) == Tok("helper", p, k, "")

Fence == Tok("fence", "", 0, "")

None == [some |-> FALSE, text |-> <<>>]

Some(t) == [some |-> TRUE, text |-> t]

RECURSIVE Join(_, _)
\* sep.join(parts) for a sequence of texts
Join(parts, sep) ==
    IF Len(parts) = 0 THEN <<>>
    ELSE IF Len(parts) = 1 THEN parts[1]
    ELSE parts[1] \o sep \o Join(Tail(parts), sep)

---------------------------------------------------------------------------
(* The problem set *)

ProblemIds == {"1", "2", "62", "76", "13"}

\* len(problem['sub_steps']) of the problems of the modelled data set
NumSteps(p) ==
    CASE p = "1" -> 1
      [] p = "2" -> 3
      [] p = "62" -> 3
      [] p = "76" -> 4
      [] p = "13" -> 7

required_dependencies(p) == <<Txt("import numpy as np")>>

step_description_prompt(p, k) == <<Tok("description", p, k, "")>>

function_header(p, k) == <<Tok("header", p, k, "")>>

return_line(p, k) == <<Tok("return", p, k, "")>>

AllArtifacts == {a \in ProblemIds \X (1..7) : a[2] <= NumSteps(a[1])}

\* The hard-coded exceptions of the prior-step lookup (prev_step is 0-based)
FixtureOverride(prob_id, prev_step) ==
    \/ (prob_id = "13" /\ prev_step = 5)
    \/ (prob_id = "62" /\ prev_step = 0)
    \/ (prob_id = "76" /\ prev_step = 2)

\* Variant: main also skips the first step of every problem
DriverSkips_first(prob_id, i) ==
    \/ i = 0
    \/ (prob_id = "13" /\ i = 5)
    \/ (prob_id = "76" /\ i = 2)

\* The same exceptions as main tests them to skip a step (i is 0-based)
DriverSkips(prob_id, i) ==
    \/ (prob_id = "13" /\ i = 5)
    \/ (prob_id = "62" /\ i = 0)
    \/ (prob_id = "76" /\ i = 2)

\* The <<problem_id, 1-based step>> pairs that have a fixture file name
FixturePairs == {a \in AllArtifacts : FixtureOverride(a[1], a[2] - 1)}

\* Content of eval/data/<prob_id>.<step>.txt: reference code holding the step's function
FixtureText(p, step) == <<Txt("reference"), NL, Def(p, step, "fixture")>>

\* Content of a response artifact left by an earlier execution
OldFile(p, step) == required_dependencies(p) \o <<NL>> \o <<Def(p, step, "old")>>

---------------------------------------------------------------------------
(* The external collaborators: the model client and the code extractors *)

ResponseKinds == {"clean", "extra", "nodef"}

\* What the model may answer for step k of problem p: prose around one fenced block
\* that holds the function alone, a helper and the function, or no function at all
ModelResponse(p, k, kind) ==
    CASE kind = "clean" -> <<Txt("prose"), Fence, Def(p, k, "a"), Fence, Txt("prose")>>
      [] kind = "extra" -> <<Fence, Helper(p, k), NL, Def(p, k, "b"), Fence>>
      [] kind = "nodef" -> <<Txt("prose"), Fence, Helper(p, k), Fence>>
      [] OTHER -> <<>>

FenceAt(response) == {i \in 1..Len(response) : response[i] = Fence}

Min(S) == CHOOSE x \in S : \A y \in S : x <= y

\* extract_python_script: the source inside the first fenced block
extract_python_script(response) ==
    IF Cardinality(FenceAt(response)) < 2 THEN response
    ELSE LET open == Min(FenceAt(response))
             close == Min(FenceAt(response) \ {open})
         IN  SubSeq(response, open + 1, close - 1)

\* extract_function_name: the name of the function a function_header declares
extract_function_name(header) == [p |-> header[1].p, k |-> header[1].k]

DefsOf(code, name) ==
    {i \in 1..Len(code) : code[i].kind = "def" /\ code[i].p = name.p /\ code[i].k = name.k}

\* get_function_from_code: the named function's source alone, or not-found (None)
get_function_from_code(code, name) ==
    IF DefsOf(code, name) = {} THEN None
    ELSE Some(<<code[Min(DefsOf(code, name))]>>)

---------------------------------------------------------------------------
(* Gencode *)

RECURSIVE NoneSeq(_)
\* [None] * n
NoneSeq(n) == IF n = 0 THEN <<>> ELSE Append(NoneSeq(n - 1), None)

\* Variant: the list is replaced on every call
ResetCache_always(cache, num_steps, tot_steps) == NoneSeq(tot_steps)

\* generate_response_with_steps, the cache reset: a new all-None list for step 1, or
\* when the list's length is not the problem's step count
ResetCache(cache, num_steps, tot_steps) ==
    IF num_steps = 1 THEN NoneSeq(tot_steps)
    ELSE IF Len(cache) # tot_steps THEN NoneSeq(tot_steps)
    ELSE cache

\* Whether that reset replaces the list
Resets(cache, num_steps, tot_steps) == num_steps = 1 \/ Len(cache) # tot_steps

\* Variant: an existing response artifact is preferred to the fixture
prev_file_prefers_artifact(files, fixtures, prob_id, prev_step) ==
    IF files[<<prob_id, prev_step + 1>>].some THEN files[<<prob_id, prev_step + 1>>]
    ELSE IF <<prob_id, prev_step + 1>> \in fixtures
    THEN Some(FixtureText(prob_id, prev_step + 1))
    ELSE None

\* prev_file_path, read when it is a file: the fixture for an override pair, the
\* response artifact of step prev_step + 1 otherwise (None: not a file)
prev_file(files, fixtures, prob_id, prev_step) ==
    IF FixtureOverride(prob_id, prev_step)
    THEN IF <<prob_id, prev_step + 1>> \in fixtures
         THEN Some(FixtureText(prob_id, prev_step + 1))
         ELSE None
    ELSE files[<<prob_id, prev_step + 1>>]

RECURSIVE resolve_prior_steps(_, _, _, _, _, _)
\* The loop `for prev_step in range(num_steps - 1)` from prev_step on: the cache it
\* leaves, and raised = prev_step + 1 of the step it raised for (0: it did not raise)
resolve_prior_steps(cache, files, fixtures, prob_id, prev_step, num_steps) ==
    IF prev_step >= num_steps - 1 THEN [cache |-> cache, raised |-> 0]
    ELSE IF cache[prev_step + 1].some
    THEN resolve_prior_steps(cache, files, fixtures, prob_id, prev_step + 1, num_steps)
    ELSE LET f == prev_file(files, fixtures, prob_id, prev_step)
             func_name == extract_function_name(function_header(prob_id, prev_step + 1))
         IN  IF f.some
             THEN resolve_prior_steps(
                      [cache EXCEPT ![prev_step + 1] = get_function_from_code(f.text, func_name)],
                      files, fixtures, prob_id, prev_step + 1, num_steps)
             ELSE [cache |-> cache, raised |-> prev_step + 1]

\* process_problem_code: header, blank line, return line
process_problem_code(p, num_steps) ==
    function_header(p, num_steps) \o <<NL, NL>> \o return_line(p, num_steps)

\* output_lines of process_problem_steps: each prior body followed by "------"
output_lines(cache, num_steps) ==
    [n \in 1..(2 * (num_steps - 1)) |->
        IF n % 2 = 1 THEN cache[(n + 1) \div 2].text ELSE <<Txt("------")>>]

\* previous_code of process_problem_steps: the prior bodies
previous_code_list(cache, num_steps) == [i \in 1..(num_steps - 1) |-> cache[i].text]

\* process_problem_steps: ok is FALSE when a prior slot is None (str.join raises
\* TypeError on it)
process_problem_steps(cache, p, num_steps) ==
    LET lines == output_lines(cache, num_steps)
        kept == IF Len(lines) = 0 THEN <<>> ELSE SubSeq(lines, 1, Len(lines) - 1)
    IN  [ok |-> \A i \in 1..(num_steps - 1) : cache[i].some,
         output_str |-> Join(kept, <<NL, NL>>),
         next_step_str |-> Join(<<step_description_prompt(p, num_steps),
                                  process_problem_code(p, num_steps)>>, <<NL, NL>>),
         previous_code_str |-> Join(previous_code_list(cache, num_steps), <<NL>>)]

\* DEFAULT_PROMPT_TEMPLATE.format(problem_steps_str=, next_step_str=, dependencies=)
format_template(problem_steps_str, next_step_str, dependencies) ==
    <<Txt("template: previous steps")>> \o problem_steps_str
    \o <<Txt("template: next step")>> \o next_step_str
    \o <<Txt("template: dependencies")>> \o dependencies

\* Variant: no newline after the prior bodies
previous_code_of_unterminated(dependencies, previous_code_str) ==
    dependencies \o <<NL>> \o previous_code_str

\* The second value generate_prompt_with_steps returns:
\* f'{dependencies}\n{previous_code_str}\n'
previous_code_of(dependencies, previous_code_str) ==
    dependencies \o <<NL>> \o previous_code_str \o <<NL>>

\* generate_prompt_with_steps: ok as process_problem_steps gives it, next_step_str
\* for `assert next_step_str`, then the rendered prompt and the previous-code string
generate_prompt_with_steps(cache, p, num_steps) ==
    LET s == process_problem_steps(cache, p, num_steps)
    IN  [ok |-> s.ok,
         next_step_str |-> s.next_step_str,
         problem_steps_str |-> s.output_str,
         prompt |-> format_template(s.output_str, s.next_step_str, required_dependencies(p)),
         previous_code |-> previous_code_of(required_dependencies(p), s.previous_code_str)]

\* save_response_with_steps: the text written to <prob_id>.<num_steps>.py
save_response_with_steps(response, previous_code) ==
    previous_code \o <<NL>> \o extract_python_script(response)

\* Variant: the existence test is dropped
ModelIsCalled_always(files, prob_id, num_steps) == TRUE

\* `if not output_file_path.exists()`: whether the model is to be called
ModelIsCalled(files, prob_id, num_steps) == ~files[<<prob_id, num_steps>>].some

\* Variant: a skipped call clears the slot
CacheAfterCall_clears(cache, num_steps, called, response) ==
    IF called THEN [cache EXCEPT ![num_steps] = Some(extract_python_script(response))]
    ELSE [cache EXCEPT ![num_steps] = None]

\* The cache after the final block of generate_response_with_steps: the slot of
\* num_steps is assigned only when the model was called
CacheAfterCall(cache, num_steps, called, response) ==
    IF called THEN [cache EXCEPT ![num_steps] = Some(extract_python_script(response))]
    ELSE cache

\* What generate_response_with_steps does once the prior steps are resolved (r) and
\* the prompt is assembled (g)
after_prompt(r, g, files, prob_id, num_steps, outcome) ==
    LET called == ModelIsCalled(files, prob_id, num_steps)
        base == [cache |-> r.cache, resolved |-> r.cache, files |-> files,
                 prompt |-> None, result |-> "ok", raised |-> 0, called |-> FALSE,
                 problem_steps_str |-> <<>>, previous_code |-> <<>>]
    IN  IF r.raised # 0
        THEN [base EXCEPT !.result = "StepOrderingError", !.raised = r.raised]
        ELSE IF ~g.ok
        THEN [base EXCEPT !.result = "TypeError"]
        ELSE IF g.next_step_str = <<>>
        THEN [base EXCEPT !.result = "AssertionError"]
        ELSE [base EXCEPT
                !.prompt = Some(g.prompt),
                !.problem_steps_str = g.problem_steps_str,
                !.previous_code = g.previous_code,
                !.called = called,
                !.result = IF called /\ outcome = "fail" THEN "ModelError" ELSE "ok",
                !.cache = CacheAfterCall(r.cache, num_steps, called /\ outcome # "fail",
                                         ModelResponse(prob_id, num_steps, outcome)),
                !.files = IF called /\ outcome # "fail"
                          THEN [files EXCEPT ![<<prob_id, num_steps>>] =
                                   Some(save_response_with_steps(
                                       ModelResponse(prob_id, num_steps, outcome),
                                       g.previous_code))]
                          ELSE files]

Only(S) == CHOOSE x \in S : TRUE

\* generate_response_with_steps on (cache, response files, fixtures) for step
\* num_steps of prob_id, with tot_steps = len(sub_steps) and save = True as main
\* calls it; outcome is what the model client does if it is called ("fail": it
\* raises; else the kind of its response).  The result: the cache and
\* the response files it leaves, the prompt it wrote (None: it wrote none), how it
\* ended (result, and raised: the step the ordering error names), whether it called
\* the model, and (resolved) the cache as the prior-step loop left it.
generate_response_with_steps(cache, files, fixtures, prob_id, num_steps, outcome) ==
    Only({Only({after_prompt(r, g, files, prob_id, num_steps, outcome) :
                  g \in {generate_prompt_with_steps(r.cache, prob_id, num_steps)}}) :
            r \in {IF num_steps = 1
                   THEN [cache |-> ResetCache(cache, num_steps, NumSteps(prob_id)),
                         raised |-> 0]
                   ELSE resolve_prior_steps(
                            ResetCache(cache, num_steps, NumSteps(prob_id)),
                            files, fixtures, prob_id, 0, num_steps)}})

---------------------------------------------------------------------------
(* The state machine *)

Outcomes == ResponseKinds \cup {"fail"}

RECURSIVE TotalSteps(_)
TotalSteps(l) == IF Len(l) = 0 THEN 0 ELSE NumSteps(l[1]) + TotalSteps(Tail(l))

\* The problem lists the driver is run on
ProblemLists ==
    {l \in UNION {[1..n -> ProblemIds] : n \in 1..MaxProblems} :
        TotalSteps(l) <= MaxTotalSteps}

ArtifactsOf(l) == {a \in AllArtifacts : \E i \in 1..Len(l) : l[i] = a[1]}

NoFiles == [a \in AllArtifacts |-> None]

NoCall == [p |-> "", k |-> 0, pos |-> 0, run |-> 0, existed |-> FALSE, called |-> FALSE,
           reset |-> FALSE, result |-> "none", raised |-> 0, resolved |-> <<>>,
           problem_steps_str |-> <<>>, previous_code |-> <<>>]

NoSnapshot == [taken |-> FALSE, response_files |-> NoFiles, prompt_files |-> NoFiles]

\* The state before main (or the first call) runs: any list of problems, any set of
\* response artifacts left by earlier executions, any set of fixture files, and a
\* newly constructed Gencode (previous_llm_code = [])
Start(first_pc, lists) ==
    /\ data \in lists
    /\ \E present \in SUBSET ArtifactsOf(data) :
           response_files = [a \in AllArtifacts |->
                                IF a \in present THEN Some(OldFile(a[1], a[2])) ELSE None]
    /\ fixture_files \in SUBSET (FixturePairs \cap ArtifactsOf(data))
    /\ prompt_files = NoFiles
    /\ previous_llm_code = <<>>
    /\ stored_in = <<>>
    /\ pc = first_pc
    /\ prob_idx = 1
    /\ step_i = 0
    /\ run = 1
    /\ invocations = 0
    /\ ncalls = 0
    /\ snapshot = NoSnapshot
    /\ last = NoCall

Init == Start("loop", ProblemLists)

\* One call gcode.generate_response_with_steps(problem, num_steps, steps, model) for
\* the problem at position pos of data, with its effect on the cache and the files
Call(pos, num_steps, outcome) ==
    LET prob_id == data[pos]
        tot_steps == NumSteps(prob_id)
        reset == Resets(previous_llm_code, num_steps, tot_steps)
        c0 == ResetCache(previous_llm_code, num_steps, tot_steps)
    IN  \E g \in {generate_response_with_steps(previous_llm_code, response_files,
                                                 fixture_files, prob_id, num_steps,
                                                 outcome)} :
        /\ previous_llm_code' = g.cache
        /\ response_files' = g.files
        /\ prompt_files' = IF g.prompt.some
                           THEN [prompt_files EXCEPT ![<<prob_id, num_steps>>] = g.prompt]
                           ELSE prompt_files
        /\ stored_in' = [i \in 1..Len(g.cache) |->
                            IF i = num_steps /\ g.called /\ g.result = "ok" THEN pos
                            ELSE IF ~c0[i].some /\ g.cache[i].some THEN pos
                            ELSE IF reset THEN 0
                            ELSE stored_in[i]]
        /\ invocations' = invocations + (IF g.called THEN 1 ELSE 0)
        /\ ncalls' = ncalls + 1
        /\ last' = [p |-> prob_id, k |-> num_steps, pos |-> pos, run |-> run,
                    existed |-> response_files[<<prob_id, num_steps>>].some,
                    called |-> g.called, reset |-> reset,
                    result |-> g.result, raised |-> g.raised, resolved |-> g.resolved,
                    problem_steps_str |-> g.problem_steps_str,
                    previous_code |-> g.previous_code]

\* The loop control of main after the body for (prob_idx, step_i) ended normally
NextIteration ==
    IF step_i + 1 < NumSteps(data[prob_idx])
    THEN /\ step_i' = step_i + 1
         /\ UNCHANGED <<prob_idx, pc>>
    ELSE IF prob_idx < Len(data)
    THEN /\ prob_idx' = prob_idx + 1
         /\ step_i' = 0
         /\ UNCHANGED pc
    ELSE /\ pc' = "done"
         /\ UNCHANGED <<prob_idx, step_i>>

\* One iteration of main's inner loop: `continue` for a skipped pair, else the call;
\* an exception of the call ends main
main_iteration ==
    /\ pc = "loop"
    /\ IF DriverSkips(data[prob_idx], step_i)
       THEN /\ NextIteration
            /\ UNCHANGED <<previous_llm_code, response_files, prompt_files, stored_in,
                           invocations, ncalls, last>>
       ELSE \E outcome \in Outcomes :
               /\ Call(prob_idx, step_i + 1, outcome)
               /\ IF last'.result = "ok"
                  THEN NextIteration
                  ELSE /\ pc' = "error"
                       /\ UNCHANGED <<prob_idx, step_i>>
    /\ UNCHANGED <<data, fixture_files, run, snapshot>>

\* main is executed a second time on the same inputs, after the first execution ran
\* to completion: a new Gencode, the files as the first execution left them
main_again ==
    /\ pc = "done"
    /\ run = 1
    /\ run' = 2
    /\ pc' = "loop"
    /\ prob_idx' = 1
    /\ step_i' = 0
    /\ previous_llm_code' = <<>>
    /\ stored_in' = <<>>
    /\ invocations' = 0
    /\ snapshot' = [taken |-> TRUE, response_files |-> response_files,
                    prompt_files |-> prompt_files]
    /\ UNCHANGED <<data, fixture_files, response_files, prompt_files, ncalls, last>>

Next == main_iteration \/ main_again

Spec == Init /\ [][Next]_vars

\* Any sequence of calls of generate_response_with_steps on one Gencode instance
Rank(p) ==
    CASE p = "1" -> 1
      [] p = "2" -> 2
      [] p = "13" -> 3
      [] p = "62" -> 4
      [] p = "76" -> 5

\* The problems the calls are about: the order is immaterial, so one list per set
ApiLists ==
    {l \in ProblemLists : \A i \in 1..Len(l) : \A j \in 1..Len(l) :
        i < j => Rank(l[i]) < Rank(l[j])}

ApiInit == Start("api", ApiLists)

api_call ==
    /\ pc = "api"
    /\ ncalls < MaxCalls
    /\ \E pos \in 1..Len(data) : \E num_steps \in 1..NumSteps(data[pos]) :
           \E outcome \in Outcomes : Call(pos, num_steps, outcome)
    /\ UNCHANGED <<data, fixture_files, pc, prob_idx, step_i, run, snapshot>>

ApiNext == api_call

ApiSpec == ApiInit /\ [][ApiNext]_vars

---------------------------------------------------------------------------
(* Properties *)

\* The Fixture Override Table as the specification states it: (problem_id, 0-based step)
OverrideTable == {<<"13", 5>>, <<"62", 0>>, <<"76", 2>>}

\* A step of the state machine that is one call of generate_response_with_steps;
\* last' then describes that call, and the unprimed variables the state before it
IsCall == ncalls' = ncalls + 1

\* The file the body of step j (1-based) of problem p is to be taken from, in the
\* current state: None when it is absent
SourceOf(p, j) ==
    IF <<p, j - 1>> \in OverrideTable
    THEN IF <<p, j>> \in fixture_files THEN Some(FixtureText(p, j)) ELSE None
    ELSE response_files[<<p, j>>]

\* extract-function-body on that file, for the function the step's header names
BodyFromSource(p, j) == get_function_from_code(SourceOf(p, j).text, [p |-> p, k |-> j])

\* Whether a call for step k of p replaces the cache
CallResets(p, k) == k = 1 \/ Len(previous_llm_code) # NumSteps(p)

\* Slot j (1-based) as a call for step k of p finds it once the reset is done
SlotAtEntry(p, k, j) == IF CallResets(p, k) THEN None ELSE previous_llm_code[j]

SlotOf(cache, j) == IF j \in 1..Len(cache) THEN cache[j] ELSE None

\* The latest call reached prompt assembly
Assembled == last.result \in {"ok", "ModelError", "TypeError"}

\* C1: in a run of the driver, every prior-step body used when a step's prompt is
\* assembled was stored while the same problem (the same position of the problem
\* list) was being processed, never during an earlier problem.
C1_NoStaleBodies ==
    (last.run = run /\ Assembled) =>
        \A j \in 1..(last.k - 1) :
            previous_llm_code[j].some => stored_in[j] = last.pos

\* C2: a call for a step whose response artifact already exists makes no model
\* invocation and leaves that artifact's content as it was.
C2_ExistingArtifactSkipsModel ==
    [][(IsCall /\ response_files[<<last'.p, last'.k>>].some) =>
          /\ invocations' = invocations
          /\ ~last'.called
          /\ response_files'[<<last'.p, last'.k>>] = response_files[<<last'.p, last'.k>>]]_vars

C2_Witness ==
    /\ ncalls = 2
    /\ last.existed
    /\ last.result = "ok"
    /\ last.k > 1
    /\ previous_llm_code[1].some

\* C3: whenever the response artifact of a required prior step j that is not in the
\* override table is absent, the call raises the step-ordering error, naming step
\* j + 1 (or an earlier step that cannot be resolved either), whatever the cache held.
C3_MissingPriorRaises ==
    [][IsCall =>
          \A j \in 0..(last'.k - 2) :
              (<<last'.p, j>> \notin OverrideTable /\ ~response_files[<<last'.p, j + 1>>].some)
                  => (last'.result = "StepOrderingError" /\ last'.raised <= j + 1)]_vars

\* C4: a second execution of the driver on the same inputs, after a first one that
\* completed, invokes the model zero times and leaves every response artifact and
\* every prompt file with the content it had when the first execution ended.
C4_RerunChangesNothing ==
    run = 2 =>
        /\ invocations = 0
        /\ response_files = snapshot.response_files
        /\ prompt_files = snapshot.prompt_files

\* C5, as stated: a resolve-prior-steps for step i that returns without error leaves
\* slots 0..i-2 populated and slots i-1 and later as they were before the call.
C5_Original ==
    [][(IsCall /\ last'.raised = 0) =>
          /\ \A j \in 1..(last'.k - 1) : last'.resolved[j].some
          /\ \A j \in last'.k..7 :
                 SlotOf(last'.resolved, j) = SlotOf(previous_llm_code, j)]_vars

\* C5, amended: a resolve-prior-steps for step i of P that returns without error
\* leaves a cache of P's step count in which, counting from the cache as the reset
\* check leaves it (all unresolved when i = 1 or the length differed from P's step
\* count, unchanged otherwise), slots i-1 and later are as they were, every populated
\* slot 0..i-2 is kept, and every unresolved slot 0..i-2 holds the result of
\* extract-function-body on its source file (which exists).
C5_ResolveFrame ==
    [][(IsCall /\ last'.raised = 0) =>
          /\ Len(last'.resolved) = NumSteps(last'.p)
          /\ \A j \in 1..NumSteps(last'.p) :
                 IF j < last'.k /\ ~SlotAtEntry(last'.p, last'.k, j).some
                 THEN /\ SourceOf(last'.p, j).some
                      /\ last'.resolved[j] = BodyFromSource(last'.p, j)
                 ELSE last'.resolved[j] = SlotAtEntry(last'.p, last'.k, j)]_vars

C5_Witness ==
    /\ ncalls = 2
    /\ last.k = 3
    /\ last.raised = 0
    /\ ~last.reset
    /\ last.resolved[1].some
    /\ last.resolved[2].some

\* C6: for every pair (p, j) of the override table and every call for a step > j + 1
\* of p that finds slot j unresolved: if the fixture file is absent the step-ordering
\* error is raised, and if it is present and the loop gets past slot j, the slot holds
\* the fixture's function, whether or not the response artifact of step j + 1 exists.
C6_OverrideUsesFixture ==
    [][IsCall =>
          \A t \in OverrideTable :
              (/\ t[1] = last'.p
               /\ t[2] + 1 < last'.k
               /\ ~SlotAtEntry(last'.p, last'.k, t[2] + 1).some)
              => /\ <<t[1], t[2] + 1>> \notin fixture_files
                        => last'.result = "StepOrderingError"
                 /\ (/\ <<t[1], t[2] + 1>> \in fixture_files
                     /\ (last'.raised = 0 \/ last'.raised > t[2] + 1))
                        => last'.resolved[t[2] + 1] = Some(<<Def(t[1], t[2] + 1, "fixture")>>)]_vars

C6_Witness ==
    /\ last.p = "13"
    /\ last.k = 7
    /\ last.result = "ok"
    /\ response_files[<<"13", 6>>].some
    /\ last.resolved[6] = Some(<<Def("13", 6, "fixture")>>)

\* The prior bodies a call for step k used
PriorBodies == [j \in 1..(last.k - 1) |-> last.resolved[j].text]

\* C7, as stated: for a problem with one sub-step and target step 1 the prior-steps
\* text is empty and the previous-code string is required_dependencies followed by
\* exactly one newline.
C7_Original ==
    (Assembled /\ last.result # "TypeError" /\ NumSteps(last.p) = 1 /\ last.k = 1) =>
        /\ last.problem_steps_str = <<>>
        /\ last.previous_code = required_dependencies(last.p) \o <<NL>>

\* C7, amended: the previous-code string is required_dependencies, a newline, the
\* prior step bodies joined by newlines, and a final newline; with no prior steps the
\* prior-steps text is empty and the previous-code string is required_dependencies
\* followed by exactly two newlines.
C7_PreviousCode ==
    (Assembled /\ last.result # "TypeError") =>
        /\ last.previous_code =
               required_dependencies(last.p) \o <<NL>> \o Join(PriorBodies, <<NL>>) \o <<NL>>
        /\ last.k = 1 =>
               /\ last.problem_steps_str = <<>>
               /\ last.previous_code = <<Txt("import numpy as np"), NL, NL>>

C7_Witness ==
    /\ last.p = "1"
    /\ last.k = 1
    /\ last.result = "ok"
    /\ last.previous_code = <<Txt("import numpy as np"), NL, NL>>

\* C8, as stated: after a call that skips the model because the response artifact
\* exists, the cache slot of that step is unresolved.
C8_Original ==
    [][(IsCall /\ response_files[<<last'.p, last'.k>>].some /\ last'.result = "ok") =>
          ~previous_llm_code'[last'.k].some]_vars

\* C8, amended: a call that skips the model because the response artifact exists
\* leaves the cache slot of that step as it was: unresolved when the call is for
\* step 1 or reset the cache, and otherwise what it held before the call (the body
\* an earlier call stored, if any).
C8_SkipLeavesSlot ==
    [][(IsCall /\ response_files[<<last'.p, last'.k>>].some /\ last'.result = "ok") =>
          previous_llm_code'[last'.k] = SlotAtEntry(last'.p, last'.k, last'.k)]_vars

C8_Witness ==
    /\ ncalls = 2
    /\ last.existed
    /\ last.result = "ok"
    /\ last.k > 1
    /\ ~last.reset
    /\ previous_llm_code[last.k].some

\* C9: every populated slot of the cache holds the function body that
\* extract-function-body yields on that step's artifact (the fixture for an override
\* pair) for the function its header names.
C9_SlotsHoldFunctionBodies ==
    (last.run = run /\ last.k > 0) =>
        \A j \in 1..Len(previous_llm_code) :
            previous_llm_code[j].some =>
                /\ SourceOf(last.p, j).some
                /\ previous_llm_code[j] = BodyFromSource(last.p, j)

\* Every override pair of the problems in the list has its fixture file
AllFixturesPresent ==
    \A t \in OverrideTable :
        (\E i \in 1..Len(data) : data[i] = t[1]) => <<t[1], t[2] + 1>> \in fixture_files

\* C10: in a run of the driver in which every override pair's fixture file exists,
\* no call raises the step-ordering error, whatever response artifacts existed at
\* the start.
C10_DriverNeverOutOfOrder ==
    AllFixturesPresent => last.result # "StepOrderingError"

C10_Witness ==
    /\ pc = "done"
    /\ run = 1
    /\ AllFixturesPresent
    /\ last.p = "76"
    /\ last.k = 4
    /\ invocations > 0
    /\ response_files[<<"76", 1>>] = Some(OldFile("76", 1))
    /\ ~response_files[<<"76", 3>>].some

====
